---------------------------- MODULE Spec2Model ----------------------------
(***************************************************************************)
(* Model of the lexer of src/src/lexer.rs.                                 *)
(*                                                                         *)
(* A byte is a one-character string, a byte slice is a sequence of bytes.  *)
(* Rust indices are 0-based: the byte source[i] of the code is s[i + 1]    *)
(* here, and the slice &source[a..b] is Slice(s, a, b).                    *)
(*                                                                         *)
(* Every scanner is an operator from the cursor (remaining slice s,        *)
(* span_offset off, and the mode flag where the code reads it) to an       *)
(* outcome record:                                                         *)
(*   panic       TRUE when the call panics,                                *)
(*   tok         the token returned (NoToken for None or on a panic),      *)
(*   source      the remaining slice the call leaves in the lexer,         *)
(*   span_offset the offset the call leaves in the lexer.                  *)
(***************************************************************************)
EXTENDS Integers, Sequences, FiniteSets, TLC

\* ------------------------------------------------------------------ bounds
\* longest enumerated source, in bytes
MaxLen == 3
\* produce-next calls that return a token, recorded per run
MaxTokens == 5

\* longest enumerated source of operator bytes
MaxSymLen == 2
\* longest enumerated source of quotes and backslashes
MaxStrLen == 5
\* longest enumerated source over one byte of every kind
MaxDispatchLen == 1

\* the starting absolute offsets handed to new
StartOffsets == {0, 3}

\* the byte 0x60 (grave accent) cannot be written inside a TLA+ string
GRAVE == "<grave>"

\* the bytes the enumerated sources are made of: the bytes the dispatcher
\* and the scanners treat in a way of their own (double quote, grave accent,
\* space, line feed, form feed, the variable sigil, the tilde) and a byte
\* with no rule; digits, comments and the other symbols are in Samples
Alphabet == {"\"", GRAVE, " ", "\n", "\f", "$", "~", "a"}

\* ------------------------------------------------------------ byte classes
\* u8::is_ascii_digit
is_ascii_digit(b) == b \in {"0", "1", "2", "3", "4", "5", "6", "7", "8", "9"}

\* u8::is_ascii_whitespace: space, tab, line feed, form feed, carriage return
is_ascii_whitespace(b) == b \in {" ", "\t", "\n", "\f", "\r"}

is_symbol(b) ==
    b \in {"+", "-", "*", "/", ".", ",", "(", "[", "{", "<", ")", "]", "}",
           ">", ":", ";", "=", "$", "|", "!", "~", "&"}

\* ---------------------------------------------------------------- slices
\* &s[a..b]; the code panics unless a <= b <= len
SliceOk(s, a, b) == a <= b /\ b <= Len(s)
Slice(s, a, b) == SubSeq(s, a + 1, b)
\* &s[a..]
SliceFrom(s, a) == SubSeq(s, a + 1, Len(s))

\* ---------------------------------------------------------------- tokens
Token(ty, contents, span_start, span_end) ==
    [token_type |-> ty, contents |-> contents,
     span_start |-> span_start, span_end |-> span_end]

\* Option::None, in the shape of a token so that results compare
NoToken == Token("None", <<>>, 0, 0)

Returned(tok, s, off) ==
    [panic |-> FALSE, tok |-> tok, source |-> s, span_offset |-> off]

Panicked(s, off) ==
    [panic |-> TRUE, tok |-> NoToken, source |-> s, span_offset |-> off]


\* ------------------------------------------------------ quoting scanners
RECURSIVE quoted_string_loop_sticky(_, _, _)
\* quoted_string_loop with the reset of is_escaped left out
quoted_string_loop_sticky(s, token_offset, is_escaped) ==
    IF token_offset < Len(s)
    THEN IF is_escaped
         THEN quoted_string_loop_sticky(s, token_offset + 1, TRUE)
         ELSE IF s[token_offset + 1] = "\\"
         THEN quoted_string_loop_sticky(s, token_offset + 1, TRUE)
         ELSE IF s[token_offset + 1] = "\""
         THEN token_offset + 1
         ELSE quoted_string_loop_sticky(s, token_offset + 1, FALSE)
    ELSE token_offset

RECURSIVE quoted_string_loop(_, _, _)
\* the while loop of lex_quoted_string; the value is the final token_offset
quoted_string_loop(s, token_offset, is_escaped) ==
    IF token_offset < Len(s)
    THEN IF is_escaped
         THEN quoted_string_loop(s, token_offset + 1, FALSE)
         ELSE IF s[token_offset + 1] = "\\"
         THEN quoted_string_loop(s, token_offset + 1, TRUE)
         ELSE IF s[token_offset + 1] = "\""
         THEN token_offset + 1
         ELSE quoted_string_loop(s, token_offset + 1, FALSE)
    ELSE token_offset

\* lex_quoted_string with the opening quote left out of the contents
lex_quoted_string_unquoted(s, off) ==
    LET span_start == off
        token_offset == quoted_string_loop(s, 1, FALSE)
        span_offset1 == off + token_offset
    IN  Returned(Token("String", Slice(s, 1, token_offset),
                       span_start, span_offset1),
                 SliceFrom(s, token_offset), span_offset1)

lex_quoted_string(s, off) ==
    LET span_start == off
        token_offset == quoted_string_loop(s, 1, FALSE)
        span_offset1 == off + token_offset
    IN  Returned(Token("String", Slice(s, 0, token_offset),
                       span_start, span_offset1),
                 SliceFrom(s, token_offset), span_offset1)

RECURSIVE single_quoted_string_loop(_, _)
single_quoted_string_loop(s, token_offset) ==
    IF token_offset < Len(s)
    THEN IF s[token_offset + 1] = "'"
         THEN token_offset + 1
         ELSE single_quoted_string_loop(s, token_offset + 1)
    ELSE token_offset

lex_single_quoted_string(s, off) ==
    LET span_start == off
        token_offset == single_quoted_string_loop(s, 1)
        span_offset1 == off + token_offset
    IN  Returned(Token("SimpleString", Slice(s, 0, token_offset),
                       span_start, span_offset1),
                 SliceFrom(s, token_offset), span_offset1)

RECURSIVE quoted_bareword_loop(_, _)
quoted_bareword_loop(s, token_offset) ==
    IF token_offset < Len(s)
    THEN IF s[token_offset + 1] = GRAVE
         THEN token_offset + 1
         ELSE quoted_bareword_loop(s, token_offset + 1)
    ELSE token_offset

\* span_offset advances by token_offset - 1 before the contents are sliced;
\* &source[1..(token_offset - 1)] panics when token_offset = 1
lex_quoted_bareword(s, off) ==
    LET span_start == off
        token_offset == quoted_bareword_loop(s, 1)
        span_offset1 == off + (token_offset - 1)
    IN  IF ~SliceOk(s, 1, token_offset - 1)
        THEN Panicked(s, span_offset1)
        ELSE Returned(Token("Bareword", Slice(s, 1, token_offset - 1),
                            span_start + 1, span_offset1),
                      SliceFrom(s, token_offset), span_offset1)

\* ------------------------------------------------------- simple scanners
RECURSIVE number_loop(_, _)
number_loop(s, token_offset) ==
    IF token_offset < Len(s)
    THEN IF ~is_ascii_digit(s[token_offset + 1])
         THEN token_offset
         ELSE number_loop(s, token_offset + 1)
    ELSE token_offset

lex_number(s, off) ==
    LET span_start == off
        token_offset == number_loop(s, 0)
        span_offset1 == off + token_offset
    IN  Returned(Token("Number", Slice(s, 0, token_offset),
                       span_start, span_offset1),
                 SliceFrom(s, token_offset), span_offset1)

\* space_set with the flag ignored
space_set_with_newline(nis) == {" ", "\t", "\r", "\n"}

\* the whitespace set lex_space picks from the mode flag
space_set(nis) == IF nis THEN {" ", "\t", "\r", "\n"} ELSE {" ", "\t", "\r"}

RECURSIVE space_loop(_, _, _)
space_loop(s, token_offset, whitespace) ==
    IF token_offset < Len(s)
    THEN IF s[token_offset + 1] \notin whitespace
         THEN token_offset
         ELSE space_loop(s, token_offset + 1, whitespace)
    ELSE token_offset

lex_space(s, off, nis) ==
    LET span_start == off
        token_offset == space_loop(s, 0, space_set(nis))
        span_offset1 == off + token_offset
    IN  Returned(Token("Space", Slice(s, 0, token_offset),
                       span_start, span_offset1),
                 SliceFrom(s, token_offset), span_offset1)

\* lex_newline with the advance of span_offset left out
lex_newline_stale_offset(s, off) ==
    LET span_start == off
    IN  Returned(Token("Newline", Slice(s, 0, 1), span_start, span_start + 1),
                 SliceFrom(s, 1), off)

lex_newline(s, off) ==
    LET span_start == off
        span_offset1 == off + 1
    IN  Returned(Token("Newline", Slice(s, 0, 1), span_start, span_start + 1),
                 SliceFrom(s, 1), span_offset1)

RECURSIVE variable_loop_whitespace(_, _)
\* variable_loop stopping at whitespace alone
variable_loop_whitespace(s, token_offset) ==
    IF token_offset < Len(s)
    THEN IF is_ascii_whitespace(s[token_offset + 1])
         THEN token_offset
         ELSE variable_loop_whitespace(s, token_offset + 1)
    ELSE token_offset

RECURSIVE variable_loop(_, _)
variable_loop(s, token_offset) ==
    IF token_offset < Len(s)
    THEN IF is_ascii_whitespace(s[token_offset + 1])
            \/ is_symbol(s[token_offset + 1])
         THEN token_offset
         ELSE variable_loop(s, token_offset + 1)
    ELSE token_offset

\* span_offset += 1, then span_offset += token_offset with token_offset
\* counted from 1
lex_variable(s, off) ==
    LET span_start == off
        span_offset1 == off + 1
        token_offset == variable_loop(s, 1)
        span_offset2 == span_offset1 + token_offset
    IN  Returned(Token("Variable", Slice(s, 0, token_offset),
                       span_start, span_offset2),
                 SliceFrom(s, token_offset), span_offset2)

RECURSIVE comment_loop_through(_, _)
\* comment_loop taking the line feed into the token
comment_loop_through(s, token_offset) ==
    IF token_offset < Len(s)
    THEN IF s[token_offset + 1] = "\n"
         THEN token_offset + 1
         ELSE comment_loop_through(s, token_offset + 1)
    ELSE token_offset

RECURSIVE comment_loop(_, _)
comment_loop(s, token_offset) ==
    IF token_offset < Len(s)
    THEN IF s[token_offset + 1] = "\n"
         THEN token_offset
         ELSE comment_loop(s, token_offset + 1)
    ELSE token_offset

\* span_offset += 1, then span_offset += token_offset, as in lex_variable
lex_comment(s, off) ==
    LET span_start == off
        span_offset1 == off + 1
        token_offset == comment_loop(s, 1)
        span_offset2 == span_offset1 + token_offset
    IN  Returned(Token("Comment", Slice(s, 0, token_offset),
                       span_start, span_offset2),
                 SliceFrom(s, token_offset), span_offset2)

RECURSIVE bareword_loop_symbols(_, _)
\* bareword_loop stopping at every member of the symbol set, as
\* variable_loop does
bareword_loop_symbols(s, token_offset) ==
    IF token_offset < Len(s)
    THEN IF is_ascii_whitespace(s[token_offset + 1])
            \/ is_symbol(s[token_offset + 1])
         THEN token_offset
         ELSE bareword_loop_symbols(s, token_offset + 1)
    ELSE token_offset

RECURSIVE bareword_loop(_, _)
bareword_loop(s, token_offset) ==
    IF token_offset < Len(s)
    THEN IF is_ascii_whitespace(s[token_offset + 1])
            \/ s[token_offset + 1] \in {"{", "}", ")", "(", "[", "]", ";", ":", ","}
         THEN token_offset
         ELSE bareword_loop(s, token_offset + 1)
    ELSE token_offset

\* lex_bareword with the span counted from the start of the remaining slice
lex_bareword_relative(s, off) ==
    LET token_offset == bareword_loop(s, 0)
        span_offset1 == off + token_offset
    IN  Returned(Token("Bareword", Slice(s, 0, token_offset),
                       0, token_offset),
                 SliceFrom(s, token_offset), span_offset1)

lex_bareword(s, off) ==
    LET span_start == off
        token_offset == bareword_loop(s, 0)
        span_offset1 == off + token_offset
    IN  Returned(Token("Bareword", Slice(s, 0, token_offset),
                       span_start, span_offset1),
                 SliceFrom(s, token_offset), span_offset1)

\* -------------------------------------------------------- symbol scanner
\* second_is comparing the second byte with the leading byte
second_is_leading(s, b) == Len(s) > 1 /\ s[2] = s[1]

\* self.source.len() > 1 && self.source[1] == b
second_is(s, b) == Len(s) > 1 /\ s[2] = b

\* the match of lex_symbol on source[0]: the token type and the byte length
\* of the arm taken; the catch-all arm is the panic
symbol_match(s) ==
    CASE s[1] = "(" -> <<"LParen", 1>>
      [] s[1] = "[" -> <<"LSquare", 1>>
      [] s[1] = "{" -> <<"LCurly", 1>>
      [] s[1] = "<" -> IF second_is(s, "=") THEN <<"LessThanEqual", 2>>
                       ELSE <<"LessThan", 1>>
      [] s[1] = ")" -> <<"RParen", 1>>
      [] s[1] = "]" -> <<"RSquare", 1>>
      [] s[1] = "}" -> <<"RCurly", 1>>
      [] s[1] = ">" -> IF second_is(s, "=") THEN <<"GreaterThanEqual", 2>>
                       ELSE <<"GreaterThan", 1>>
      [] s[1] = "+" -> IF second_is(s, "+") THEN <<"PlusPlus", 2>>
                       ELSE <<"Plus", 1>>
      [] s[1] = "-" -> <<"Dash", 1>>
      [] s[1] = "*" -> IF second_is(s, "*") THEN <<"AsteriskAsterisk", 2>>
                       ELSE <<"Asterisk", 1>>
      [] s[1] = "/" -> IF second_is(s, "/")
                       THEN <<"ForwardSlashForwardSlash", 2>>
                       ELSE <<"ForwardSlash", 1>>
      [] s[1] = "=" -> IF second_is(s, "=") THEN <<"EqualsEquals", 2>>
                       ELSE IF second_is(s, "~") THEN <<"EqualsTilde", 2>>
                       ELSE <<"Equals", 1>>
      [] s[1] = ":" -> <<"Colon", 1>>
      [] s[1] = ";" -> <<"Semicolon", 1>>
      [] s[1] = "." -> IF second_is(s, ".") THEN <<"DotDot", 2>>
                       ELSE <<"Dot", 1>>
      [] s[1] = "!" -> IF second_is(s, "=") THEN <<"ExclamationEquals", 2>>
                       ELSE IF second_is(s, "~") THEN <<"ExclamationTilde", 2>>
                       ELSE <<"Exclamation", 1>>
      [] s[1] = "$" -> <<"Dollar", 1>>
      [] s[1] = "|" -> IF second_is(s, "|") THEN <<"PipePipe", 2>>
                       ELSE <<"Pipe", 1>>
      [] s[1] = "&" -> IF second_is(s, "&") THEN <<"AmpersandAmpersand", 2>>
                       ELSE <<"Ampersand", 1>>
      [] s[1] = "," -> <<"Comma", 1>>
      [] OTHER -> <<"panic", 0>>

\* the panic of the catch-all arm comes before any assignment
lex_symbol(s, off) ==
    LET span_start == off
        m == symbol_match(s)
    IN  IF m[1] = "panic"
        THEN Panicked(s, off)
        ELSE LET result == Token(m[1], Slice(s, 0, m[2]),
                                 span_start, span_start + m[2])
             IN  Returned(result, SliceFrom(s, result.span_end - span_start),
                          result.span_end)

\* ------------------------------------------------------------ dispatcher
\* dispatch with the symbol test ahead of the test for the variable sigil
dispatch_symbol_first(s, nis) ==
    IF s = <<>> THEN "none"
    ELSE IF is_ascii_digit(s[1]) THEN "lex_number"
    ELSE IF s[1] = "\"" THEN "lex_quoted_string"
    ELSE IF s[1] = "'" THEN "lex_single_quoted_string"
    ELSE IF s[1] = GRAVE THEN "lex_quoted_bareword"
    ELSE IF s[1] = " " \/ s[1] = "\t" \/ s[1] = "\r" \/ (nis /\ s[1] = "\n")
    THEN "lex_space"
    ELSE IF is_symbol(s[1]) THEN "lex_symbol"
    ELSE IF s[1] = "$" THEN "lex_variable"
    ELSE IF s[1] = "\n" THEN "lex_newline"
    ELSE IF s[1] = "#" THEN "lex_comment"
    ELSE "lex_bareword"

\* the if-chain of next: the scanner the call goes to
dispatch(s, nis) ==
    IF s = <<>> THEN "none"
    ELSE IF is_ascii_digit(s[1]) THEN "lex_number"
    ELSE IF s[1] = "\"" THEN "lex_quoted_string"
    ELSE IF s[1] = "'" THEN "lex_single_quoted_string"
    ELSE IF s[1] = GRAVE THEN "lex_quoted_bareword"
    ELSE IF s[1] = " " \/ s[1] = "\t" \/ s[1] = "\r" \/ (nis /\ s[1] = "\n")
    THEN "lex_space"
    ELSE IF s[1] = "$" THEN "lex_variable"
    ELSE IF is_symbol(s[1]) THEN "lex_symbol"
    ELSE IF s[1] = "\n" THEN "lex_newline"
    ELSE IF s[1] = "#" THEN "lex_comment"
    ELSE "lex_bareword"

\* Lexer::next on the cursor (s, off) under the mode flag nis
next(s, off, nis) ==
    LET scanner_name == dispatch(s, nis)
    IN  CASE scanner_name = "none" -> Returned(NoToken, s, off)
          [] scanner_name = "lex_number" -> lex_number(s, off)
          [] scanner_name = "lex_quoted_string" -> lex_quoted_string(s, off)
          [] scanner_name = "lex_single_quoted_string" ->
                 lex_single_quoted_string(s, off)
          [] scanner_name = "lex_quoted_bareword" -> lex_quoted_bareword(s, off)
          [] scanner_name = "lex_space" -> lex_space(s, off, nis)
          [] scanner_name = "lex_variable" -> lex_variable(s, off)
          [] scanner_name = "lex_symbol" -> lex_symbol(s, off)
          [] scanner_name = "lex_newline" -> lex_newline(s, off)
          [] scanner_name = "lex_comment" -> lex_comment(s, off)
          [] scanner_name = "lex_bareword" -> lex_bareword(s, off)

\* peek with the restoring assignments left out
peek_no_restore(s, off, nis) == next(s, off, nis)

\* Lexer::peek: next, then span_offset and source are put back; a panic
\* inside next unwinds past the two restoring assignments
peek(s, off, nis) ==
    LET prev_offset == off
        prev_source == s
        output == next(s, off, nis)
    IN  IF output.panic
        THEN output
        ELSE Returned(output.tok, prev_source, prev_offset)

\* ------------------------------------------------------------------ state
VARIABLES
    source,            \* Lexer.source: the remaining slice
    span_offset,       \* Lexer.span_offset
    newline_is_space,  \* Lexer.newline_is_space
    orig,              \* the slice given to new
    start,             \* the offset given to new
    trace,             \* one entry per token returned by next, in order
    out,               \* what the last call returned
    lastOp,            \* the last operation: "new", "next", "peek", "toggle"
    scanner,           \* the scanner the last next or peek went to
    panicked           \* the last call panicked

vars == <<source, span_offset, newline_is_space, orig, start, trace, out,
          lastOp, scanner, panicked>>

\* all byte sequences over the bytes A up to n bytes
SeqsOver(A, n) == UNION {[1..k -> A] : k \in 0..n}

\* all byte sequences over the alphabet up to n bytes
SeqsUpTo(n) == SeqsOver(Alphabet, n)

\* the sources of the scenarios of the specification
Scenarios ==
    { <<"1", "2", "3">>,
      <<"$", "f", "o", "o", "|", "$", "b", "a", "r">>,
      <<"1", ".", ".", "5">>,
      <<"&", "&">>,
      <<"&", "x">>,
      <<"\"", "a", "\\", "\"", "b">> }

\* further sources, for the bytes and operators outside the alphabet
Samples ==
    { <<"'", "a", "'", "|", "|">>,
      <<"x", "=", "=", "1", "\t", "#", "c", "\n", GRAVE, "l", "s", GRAVE>>,
      <<"a", "+", "b", ")", "\r", "\n", "!", "~">>,
      <<"\"", "a", "\"", "1", "2", "#", "c">>,
      <<"1", "#", "\n", "#", "$", "1", "-">> }

Sources == SeqsUpTo(MaxLen) \cup Scenarios \cup Samples

\* bytes of orig consumed when r is what remains
Consumed(r) == Len(orig) - Len(r)

\* the leading bytes of the operators with a two-byte form, the bytes they
\* pair with, and a byte that pairs with none
SymbolAlphabet == {"<", ">", "+", "*", "/", "=", "!", "|", "&", ".", "~", "x"}

\* the bytes the double-quoted scanner tells apart
StringAlphabet == {"\"", "\\", "a"}

\* the whitespace bytes of both modes, the comment sign and a plain byte
LineAlphabet == {" ", "\t", "\r", "\n", "#", "a"}

\* terminators and non-terminators of words and variable names
WordAlphabet == {"a", "+", "{", ",", " ", "\f", "$"}

\* one byte or more of every kind the dispatcher tells apart, and every
\* member of the symbol set
DispatchAlphabet ==
    {"0", "7", "9", "\"", "'", GRAVE, " ", "\t", "\r", "\n", "\f", "$", "#",
     "a", "Z", "_", "\\", "@", "?", "%", "^",
     "+", "-", "*", "/", ".", ",", "(", "[", "{", "<", ")", "]", "}", ">",
     ":", ";", "=", "|", "!", "~", "&"}

\* Lexer::new(orig, start), for orig among the sources S
InitOver(S) ==
    /\ orig \in S
    /\ start \in StartOffsets
    /\ source = orig
    /\ span_offset = start
    /\ newline_is_space = FALSE
    /\ trace = <<>>
    /\ out = NoToken
    /\ lastOp = "new"
    /\ scanner = "none"
    /\ panicked = FALSE

Init == InitOver(Sources)

\* longer runs of operators
SymbolSamples ==
    { <<"=", "~", "=", "=", "=">>,
      <<"!", "=", "!", "~", "!">>,
      <<"<", "=", "<", ">", "=", ">">>,
      <<"|", "|", "|", "&", "&", "&">> }

InitSymbols ==
    InitOver(SeqsOver(SymbolAlphabet, MaxSymLen) \cup Scenarios
             \cup SymbolSamples)

InitStrings == InitOver(SeqsOver(StringAlphabet, MaxStrLen) \cup Scenarios)

InitLines == InitOver(SeqsOver(LineAlphabet, MaxLen))

\* words with quotes, operators and sigils inside
WordSamples ==
    { <<"a", "\"", "'", "$", "#", GRAVE, "-", ".", "*", "/", "b", ";", "c">>,
      <<"$", "a", "#", "'", "\"", GRAVE, "1", "_", ".", "b">>,
      <<"$", "a", "\t", "$", "\n", "$", "$", "b", "(", "$", ")">>,
      <<"a", "+", "b">> }

InitWords == InitOver(SeqsOver(WordAlphabet, MaxLen) \cup WordSamples)

InitDispatch == InitOver(SeqsOver(DispatchAlphabet, MaxDispatchLen))

\* a call of next by the owner of the lexer
Next_ ==
    /\ ~panicked
    /\ source = <<>> \/ Len(trace) < MaxTokens
    /\ LET r == next(source, span_offset, newline_is_space)
       IN  /\ source' = r.source
           /\ span_offset' = r.span_offset
           /\ out' = r.tok
           /\ panicked' = r.panic
           /\ trace' = IF r.panic \/ r.tok = NoToken
                       THEN trace
                       ELSE Append(trace,
                                   [tok |-> r.tok,
                                    before |-> Consumed(source),
                                    after |-> Consumed(r.source),
                                    scanner |-> dispatch(source,
                                                         newline_is_space)])
    /\ scanner' = dispatch(source, newline_is_space)
    /\ lastOp' = "next"
    /\ UNCHANGED <<newline_is_space, orig, start>>

\* a peek that restores the lexer by building it anew, the mode flag with it
Peek_rebuilding ==
    /\ ~panicked
    /\ LET r == peek(source, span_offset, newline_is_space)
       IN  /\ source' = r.source
           /\ span_offset' = r.span_offset
           /\ out' = r.tok
           /\ panicked' = r.panic
    /\ scanner' = dispatch(source, newline_is_space)
    /\ lastOp' = "peek"
    /\ newline_is_space' = FALSE
    /\ UNCHANGED <<orig, start, trace>>

\* a call of peek
Peek ==
    /\ ~panicked
    /\ LET r == peek(source, span_offset, newline_is_space)
       IN  /\ source' = r.source
           /\ span_offset' = r.span_offset
           /\ out' = r.tok
           /\ panicked' = r.panic
    /\ scanner' = dispatch(source, newline_is_space)
    /\ lastOp' = "peek"
    /\ UNCHANGED <<newline_is_space, orig, start, trace>>

\* the caller writes the public field newline_is_space
Toggle ==
    /\ ~panicked
    /\ newline_is_space' = ~newline_is_space
    /\ lastOp' = "toggle"
    /\ UNCHANGED <<source, span_offset, orig, start, trace, out, scanner,
                   panicked>>

Next == Next_ \/ Peek \/ Toggle

Spec == Init /\ [][Next]_vars

SpecSymbols == InitSymbols /\ [][Next]_vars

SpecStrings == InitStrings /\ [][Next]_vars

SpecLines == InitLines /\ [][Next]_vars

SpecWords == InitWords /\ [][Next]_vars

SpecDispatch == InitDispatch /\ [][Next]_vars

\* ------------------------------------------------------------ properties
RECURSIVE ContentsFrom(_, _)
\* the contents of the tokens tr[i], tr[i + 1], ... concatenated
ContentsFrom(tr, i) ==
    IF i > Len(tr) THEN <<>> ELSE tr[i].tok.contents \o ContentsFrom(tr, i + 1)

\* r is a suffix of o
IsSuffix(r, o) == Len(r) <= Len(o) /\ r = SubSeq(o, Len(o) - Len(r) + 1, Len(o))

\* next has just returned the end-of-input sentinel
SentinelReturned == lastOp = "next" /\ ~panicked /\ out = NoToken

\* C1 - Totality: no call of next or peek panics, whatever the bytes and the
\* mode flag; every call returns a token or the sentinel.
Totality == ~panicked

\* C2 (as claimed) - Losslessness: once next has returned the sentinel, the
\* contents of the tokens it returned, concatenated in order, are the
\* original bytes.
Losslessness == SentinelReturned => ContentsFrom(trace, 1) = orig

\* no token returned so far came from the quoted Bareword scanner
NoQuotedBareword ==
    \A i \in DOMAIN trace : trace[i].scanner # "lex_quoted_bareword"

\* C2 (amended) - once next has returned the sentinel, and none of the
\* tokens it returned came from the quoted Bareword scanner, their contents
\* concatenated in order are the original bytes.
LosslessnessButQuotedBareword ==
    (SentinelReturned /\ NoQuotedBareword) => ContentsFrom(trace, 1) = orig

\* C2 - the sentinel returned after three or more tokens, a String among
\* them and no quoted Bareword
LosslessnessWitness ==
    /\ SentinelReturned
    /\ NoQuotedBareword
    /\ Len(trace) >= 3
    /\ \E i \in DOMAIN trace : trace[i].scanner = "lex_quoted_string"

\* C3 - Byte-accurate spans: every token returned by next starts at the
\* starting offset plus the bytes consumed before the call and ends at the
\* starting offset plus the bytes consumed after it; $foo|$bar from offset 0
\* gives Variable [0,4), Pipe [4,5), Variable [5,9).
ByteAccurateSpans ==
    /\ \A i \in DOMAIN trace :
         /\ trace[i].tok.span_start = start + trace[i].before
         /\ trace[i].tok.span_end = start + trace[i].after
    /\ (/\ orig = <<"$", "f", "o", "o", "|", "$", "b", "a", "r">>
        /\ start = 0
        /\ SentinelReturned)
       => [i \in DOMAIN trace |-> trace[i].tok] =
            << Token("Variable", <<"$", "f", "o", "o">>, 0, 4),
               Token("Pipe", <<"|">>, 4, 5),
               Token("Variable", <<"$", "b", "a", "r">>, 5, 9) >>

\* the span_end of the token before the i-th, the starting offset for i = 1
PrevEnd(i) == IF i = 1 THEN start ELSE trace[i - 1].tok.span_end

\* C4 (as claimed) - Span contiguity: every token returned by next starts
\* where the previous one ended, and the first starts at the starting offset.
SpanContiguity ==
    \A i \in DOMAIN trace : trace[i].tok.span_start = PrevEnd(i)

\* C4 (amended) - every token returned by next starts where the previous one
\* ended (the first at the starting offset), except a token of the quoted
\* Bareword scanner, which starts one byte after that.
SpanContiguityButQuotedBareword ==
    \A i \in DOMAIN trace :
        trace[i].tok.span_start =
            PrevEnd(i) + (IF trace[i].scanner = "lex_quoted_bareword"
                          THEN 1 ELSE 0)

\* C4 - a quoted Bareword token returned after another token, and a token
\* of another scanner returned after a token
SpanContiguityWitness ==
    /\ \E i \in 2..Len(trace) : trace[i].scanner = "lex_quoted_bareword"
    /\ \E i \in 2..Len(trace) : trace[i].scanner # "lex_quoted_bareword"

\* C5 - Preview idempotence: peek leaves the remaining slice, span_offset
\* and the mode flag as they were, and a peek or next that follows a peek
\* directly has the outcome of that peek.
PreviewIdempotence ==
    [][ /\ lastOp' = "peek" =>
            /\ source' = source
            /\ span_offset' = span_offset
            /\ newline_is_space' = newline_is_space
        /\ (lastOp = "peek" /\ lastOp' \in {"peek", "next"}) =>
            /\ out' = out
            /\ panicked' = panicked ]_vars

\* C5 - a peek in mid-stream that returned a token
PreviewWitness ==
    /\ lastOp = "peek"
    /\ out # NoToken
    /\ trace # <<>>
    /\ source # <<>>

\* C6 - Cursor invariant: span_offset plus the length of the remaining slice
\* is the document end, and the remaining slice is a suffix of the source.
CursorInvariant ==
    /\ span_offset + Len(source) = start + Len(orig)
    /\ IsSuffix(source, orig)

\* C7 - Token length: a token of any scanner but the quoted Bareword one
\* spans as many bytes as its contents hold.
TokenLength ==
    \A i \in DOMAIN trace :
        trace[i].scanner # "lex_quoted_bareword" =>
            trace[i].tok.span_end - trace[i].tok.span_start =
                Len(trace[i].tok.contents)

\* C8 - Progress and termination: every next that returns a token consumes
\* at least one byte, so next returns at most Len(orig) tokens.
Progress ==
    /\ \A i \in DOMAIN trace : trace[i].after > trace[i].before
    /\ Len(trace) <= Len(orig)

\* C9 - the panic of the Symbol scanner is unreachable through next: no call
\* that the dispatcher routes to lex_symbol panics.
SymbolPanicUnreachable == ~(panicked /\ scanner = "lex_symbol")

\* C10 - next returns the sentinel exactly when the remaining slice is
\* empty and a token otherwise; on an empty remainder next and peek return
\* the sentinel and leave span_offset and the remaining slice alone.
SentinelIffEmpty ==
    [][ /\ lastOp' = "next" =>
            /\ ~panicked'
            /\ (out' = NoToken) <=> (source = <<>>)
        /\ (source = <<>> /\ lastOp' \in {"next", "peek"}) =>
            /\ ~panicked'
            /\ out' = NoToken
            /\ source' = source
            /\ span_offset' = span_offset ]_vars

\* the remaining slice at the call that returned the i-th token
Rem(i) == SliceFrom(orig, trace[i].before)

\* the bytes the call that returned the i-th token consumed
Eaten(i) == Slice(orig, trace[i].before, trace[i].after)

\* the token types returned so far, in order
Types == [i \in DOMAIN trace |-> trace[i].tok.token_type]

\* the operators of two bytes: leading byte, second byte, token type
TwoByteOperators ==
    { <<"<", "=", "LessThanEqual">>, <<">", "=", "GreaterThanEqual">>,
      <<"+", "+", "PlusPlus">>, <<"*", "*", "AsteriskAsterisk">>,
      <<"/", "/", "ForwardSlashForwardSlash">>,
      <<"=", "=", "EqualsEquals">>, <<"=", "~", "EqualsTilde">>,
      <<"!", "=", "ExclamationEquals">>, <<"!", "~", "ExclamationTilde">>,
      <<"|", "|", "PipePipe">>, <<"&", "&", "AmpersandAmpersand">>,
      <<".", ".", "DotDot">> }

\* their one-byte prefixes: byte, token type
OneByteOperators ==
    { <<"<", "LessThan">>, <<">", "GreaterThan">>, <<"+", "Plus">>,
      <<"*", "Asterisk">>, <<"/", "ForwardSlash">>, <<"=", "Equals">>,
      <<"!", "Exclamation">>, <<"|", "Pipe">>, <<"&", "Ampersand">>,
      <<".", "Dot">> }

\* the two-byte operators the slice r begins with
Munched(r) ==
    {o \in TwoByteOperators : Len(r) >= 2 /\ r[1] = o[1] /\ r[2] = o[2]}

\* C11 - Symbol maximal munch: on a leading byte with a two-byte form, next
\* returns the two-byte operator exactly when the second byte is there and
\* is the paired byte, and the one-byte token otherwise, consuming 2 resp. 1
\* bytes; && is one AmpersandAmpersand, &x begins with Ampersand, 1..5 is
\* Number, DotDot, Number.
MaximalMunch ==
    /\ \A i \in DOMAIN trace :
         \A p \in OneByteOperators :
            Rem(i)[1] = p[1] =>
                IF Munched(Rem(i)) # {}
                THEN /\ \E o \in Munched(Rem(i)) :
                            trace[i].tok.token_type = o[3]
                     /\ trace[i].tok.contents = Slice(Rem(i), 0, 2)
                     /\ trace[i].after - trace[i].before = 2
                ELSE /\ trace[i].tok.token_type = p[2]
                     /\ trace[i].tok.contents = Slice(Rem(i), 0, 1)
                     /\ trace[i].after - trace[i].before = 1
    /\ (orig = <<"&", "&">> /\ SentinelReturned)
            => Types = <<"AmpersandAmpersand">>
    /\ (orig = <<"&", "x">> /\ trace # <<>>) => Types[1] = "Ampersand"
    /\ (orig = <<"1", ".", ".", "5">> /\ SentinelReturned)
            => Types = <<"Number", "DotDot", "Number">>

\* C11 - a two-byte operator and the one-byte token of the same leading
\* byte, both returned
MaximalMunchWitness ==
    /\ \E i \in DOMAIN trace : trace[i].tok.token_type = "EqualsTilde"
    /\ \E i \in DOMAIN trace : trace[i].tok.token_type = "EqualsEquals"
    /\ \E i \in DOMAIN trace : trace[i].tok.token_type = "Equals"

\* the length of the run of backslashes that ends right before r[j], the
\* opening quote r[1] apart
BackslashesBefore(r, j) ==
    CHOOSE n \in 0..(j - 2) :
        /\ \A k \in (j - n)..(j - 1) : r[k] = "\\"
        /\ n = j - 2 \/ r[j - n - 1] # "\\"

\* the positions after the opening quote of the quotes no backslash escapes:
\* a backslash escapes the byte after it unless it is escaped itself
ClosingQuotes(r) ==
    {j \in 2..Len(r) : r[j] = "\"" /\ BackslashesBefore(r, j) % 2 = 0}

\* the length of the String token the slice r begins with
StringEnd(r) ==
    IF ClosingQuotes(r) = {} THEN Len(r)
    ELSE CHOOSE j \in ClosingQuotes(r) : \A k \in ClosingQuotes(r) : j <= k

\* C12 - Double-quoted String scanning: on a leading double quote next
\* returns one String token that runs from the opening quote through the
\* first later quote that no active backslash escapes, or to the end of
\* input when there is none, without a panic.
QuotedString ==
    /\ \A i \in DOMAIN trace :
         Rem(i)[1] = "\"" =>
            /\ trace[i].tok.token_type = "String"
            /\ trace[i].tok.contents = Slice(Rem(i), 0, StringEnd(Rem(i)))
            /\ Eaten(i) = trace[i].tok.contents
    /\ (source # <<>> /\ source[1] = "\"") => ~panicked
    /\ (orig = <<"\"", "a", "\\", "\"", "b">> /\ lastOp = "next")
            => /\ ~panicked
               /\ Len(trace) = 1
               /\ trace[1].tok.contents = orig

\* C12 - a String token closed by a quote that follows an escaped quote,
\* with input left after it
QuotedStringWitness ==
    \E i \in DOMAIN trace :
        /\ trace[i].tok.token_type = "String"
        /\ trace[i].tok.contents = <<"\"", "\\", "\"", "\"">>
        /\ trace[i].after < Len(orig)

\* C13 - Mode-flag frame: new leaves newline_is_space false, and neither
\* next nor peek, whatever scanner they run, changes it.
FlagFrame ==
    /\ newline_is_space = FALSE
    /\ [][lastOp' \in {"next", "peek"}
            => newline_is_space' = newline_is_space]_vars

\* C13 - a peek made with the flag set, after next has returned a token
FlagFrameWitness ==
    /\ lastOp = "peek"
    /\ newline_is_space
    /\ trace # <<>>
    /\ out # NoToken

\* the token tok with its span moved up by k; the sentinel has no span
Shifted(tok, k) ==
    IF tok = NoToken THEN NoToken
    ELSE [tok EXCEPT !.span_start = @ + k, !.span_end = @ + k]

\* C14 - Offset translation: the lexer built by new(orig, start) and the
\* one built by new(orig, 0) go in step under the same calls and flag
\* writes: with the same remaining slice and offsets start apart, next
\* returns tokens of the same type and contents with spans start apart
\* (or both panic), and leaves the same remaining slice and offsets start
\* apart. They begin so: span_offset = start against 0.
OffsetTranslation ==
    /\ source = orig /\ span_offset = start
    /\ [][lastOp' = "next" =>
            LET zero == next(source, span_offset - start, newline_is_space)
            IN  /\ out' = Shifted(zero.tok, start)
                /\ panicked' = zero.panic
                /\ source' = zero.source
                /\ span_offset' = zero.span_offset + start]_vars

\* C14 - three tokens or more returned from a starting offset other than
\* 0, the flag written in between
OffsetTranslationWitness ==
    /\ start # 0
    /\ Len(trace) >= 3
    /\ newline_is_space
    /\ lastOp = "next"

\* the token types of the Symbol family
SymbolTypes ==
    {o[3] : o \in TwoByteOperators} \cup {o[2] : o \in OneByteOperators}
    \cup {"LParen", "LSquare", "LCurly", "RParen", "RSquare", "RCurly",
          "Dash", "Colon", "Semicolon", "Comma", "Dollar"}

\* the families of the leading bytes whose family the flag does not change:
\* bytes, scanner, token types
FamilyTable ==
    { <<{"0", "1", "2", "3", "4", "5", "6", "7", "8", "9"},
        "lex_number", {"Number"}>>,
      <<{"\""}, "lex_quoted_string", {"String"}>>,
      <<{"'"}, "lex_single_quoted_string", {"SimpleString"}>>,
      <<{GRAVE}, "lex_quoted_bareword", {"Bareword"}>>,
      <<{" ", "\t", "\r"}, "lex_space", {"Space"}>>,
      <<{"$"}, "lex_variable", {"Variable"}>>,
      <<{"+", "-", "*", "/", ".", ",", "(", ")", "{", "}", "[", "]", "<",
         ">", ":", ";", "=", "|", "!", "~", "&"}, "lex_symbol", SymbolTypes>>,
      <<{"#"}, "lex_comment", {"Comment"}>> }

\* the family of the leading byte b under the flag: scanner, token types
Family(b, flag) ==
    IF b = "\n"
    THEN IF flag THEN <<"lex_space", {"Space"}>>
         ELSE <<"lex_newline", {"Newline"}>>
    ELSE IF \E row \in FamilyTable : b \in row[1]
    THEN LET row == CHOOSE row \in FamilyTable : b \in row[1]
         IN  <<row[2], row[3]>>
    ELSE <<"lex_bareword", {"Bareword"}>>

\* C15 - Dispatcher priority: on a non-empty remainder the scanner next
\* (and so peek) goes to, and the type of the token it returns, are those
\* of the family of the first remaining byte under the flag.
DispatcherPriority ==
    [][(lastOp' \in {"next", "peek"} /\ source # <<>>) =>
            /\ scanner' = Family(source[1], newline_is_space)[1]
            /\ out' # NoToken =>
                  out'.token_type \in Family(source[1], newline_is_space)[2]
      ]_vars

\* C15 - a line feed sent to the Space scanner, the flag being set
DispatcherPriorityWitness ==
    /\ lastOp = "next"
    /\ scanner = "lex_space"
    /\ out.contents = <<"\n">>
    /\ newline_is_space

\* the positions after the opening one of the grave accents of r
ClosingGraves(r) == {j \in 2..Len(r) : r[j] = GRAVE}

\* the position of the grave accent that closes the one r begins with, or
\* one past the end of r when there is none
GraveEnd(r) ==
    IF ClosingGraves(r) = {} THEN Len(r) + 1
    ELSE CHOOSE j \in ClosingGraves(r) : \A k \in ClosingGraves(r) : j <= k

\* C16 - Quoted Bareword scanning: on a leading grave accent next consumes
\* through the next grave accent, or to the end of input when there is
\* none, and returns a Bareword whose contents are the bytes consumed less
\* the delimiters: the bytes between the two accents, or all bytes after
\* the opening one when unterminated.
QuotedBareword ==
    /\ \A i \in DOMAIN trace :
         Rem(i)[1] = GRAVE =>
            /\ trace[i].tok.token_type = "Bareword"
            /\ trace[i].tok.contents = SubSeq(Rem(i), 2, GraveEnd(Rem(i)) - 1)
            /\ Len(Eaten(i)) = IF ClosingGraves(Rem(i)) = {} THEN Len(Rem(i))
                               ELSE GraveEnd(Rem(i))
    /\ (source # <<>> /\ source[1] = GRAVE) => ~panicked

\* the length of the longest prefix of r made of bytes of the set W
RunOf(r, W) ==
    CHOOSE n \in 0..Len(r) :
        /\ \A j \in 1..n : r[j] \in W
        /\ n = Len(r) \/ r[n + 1] \notin W

\* the bytes of a Space token under the flag
Blank(flag) == {" ", "\t", "\r"} \cup (IF flag THEN {"\n"} ELSE {})

\* C17 - Newline mode semantics: with the flag clear a leading line feed
\* yields a Newline token of exactly one byte, and a Space token is the
\* maximal run of space, tab and carriage return, so holds no line feed;
\* with the flag set next returns no Newline token, and a Space token is
\* the maximal run of space, tab, carriage return and line feed.
NewlineMode ==
    [][(lastOp' = "next" /\ source # <<>>) =>
        LET run == RunOf(source, Blank(newline_is_space))
        IN  /\ (~newline_is_space /\ source[1] = "\n") =>
                  /\ out' = Token("Newline", <<"\n">>, span_offset,
                                  span_offset + 1)
                  /\ source' = SliceFrom(source, 1)
            /\ newline_is_space => out'.token_type # "Newline"
            /\ (out'.token_type = "Space" \/ run > 0) =>
                  /\ out'.token_type = "Space"
                  /\ run > 0
                  /\ out'.contents = Slice(source, 0, run)
                  /\ source' = SliceFrom(source, run)
                  /\ ~newline_is_space =>
                        \A j \in 1..Len(out'.contents) :
                            out'.contents[j] # "\n"
      ]_vars

\* C17 - a Newline token returned with the flag clear, and after it a Space
\* token holding a line feed with the flag set
NewlineModeWitness ==
    /\ \E i \in DOMAIN trace : trace[i].tok.token_type = "Newline"
    /\ lastOp = "next"
    /\ newline_is_space
    /\ out.token_type = "Space"
    /\ Len(out.contents) >= 2
    /\ \E j \in 1..Len(out.contents) : out.contents[j] = "\n"

\* the whitespace bytes
Whitespace == {" ", "\t", "\n", "\f", "\r"}

\* the length of the longest prefix of r with no byte of the set T
RunUpTo(r, T) ==
    CHOOSE n \in 0..Len(r) :
        /\ \A j \in 1..n : r[j] \notin T
        /\ n = Len(r) \/ r[n + 1] \in T

\* the bytes that end a free-form Bareword
WordEnds == Whitespace \cup {"{", "}", "(", ")", "[", "]", ";", ":", ","}

\* C18 - Free-form Bareword scanning: a token of the free Bareword scanner
\* holds the maximal prefix of the remainder with no whitespace byte and
\* none of { } ( ) [ ] ; : , and the scanner consumes just that; operator
\* bytes, quotes, $ and # stay inside the word, so a+b is one Bareword.
FreeBareword ==
    /\ \A i \in DOMAIN trace :
         trace[i].scanner = "lex_bareword" =>
            /\ trace[i].tok.token_type = "Bareword"
            /\ trace[i].tok.contents =
                  Slice(Rem(i), 0, RunUpTo(Rem(i), WordEnds))
            /\ Eaten(i) = trace[i].tok.contents
    /\ (orig = <<"a", "+", "b">> /\ trace # <<>>)
            => trace[1].tok = Token("Bareword", orig, start, start + 3)

\* C18 - a word with quotes, operators, $ and # inside, ended by a
\* semicolon
FreeBarewordWitness ==
    \E i \in DOMAIN trace :
        /\ trace[i].scanner = "lex_bareword"
        /\ trace[i].tok.contents =
              <<"a", "\"", "'", "$", "#", GRAVE, "-", ".", "*", "/", "b">>
        /\ trace[i].after < Len(orig)

\* the symbol set
SymbolSet ==
    {"+", "-", "*", "/", ".", ",", "(", ")", "{", "}", "[", "]", "<", ">",
     ":", ";", "=", "$", "|", "!", "~", "&"}

\* C19 - Variable scanning: on a leading $ next returns a Variable token
\* whose contents are the $ and the maximal run after it of bytes that are
\* neither whitespace nor in the symbol set, maybe none; no token is of
\* type Dollar.
VariableScan ==
    /\ \A i \in DOMAIN trace :
         /\ Rem(i)[1] = "$" =>
               /\ trace[i].tok.token_type = "Variable"
               /\ trace[i].tok.contents =
                     Slice(Rem(i), 0,
                           1 + RunUpTo(SliceFrom(Rem(i), 1),
                                       Whitespace \cup SymbolSet))
               /\ Eaten(i) = trace[i].tok.contents
         /\ trace[i].tok.token_type # "Dollar"
    /\ out.token_type # "Dollar"

\* C19 - a Variable with a name and a Variable that is the $ alone, the
\* second before a whitespace or symbol byte
VariableScanWitness ==
    /\ \E i \in DOMAIN trace : trace[i].tok.contents = <<"$", "a">>
    /\ \E i \in DOMAIN trace :
          /\ trace[i].tok.contents = <<"$">>
          /\ trace[i].after < Len(orig)

\* C20 - Comment scanning: on a leading # the Comment token runs from the
\* # up to, not including, the first line feed, or to the end of input;
\* the line feed is left unconsumed and is the first byte of the next
\* token.
CommentScan ==
    \A i \in DOMAIN trace :
        Rem(i)[1] = "#" =>
            /\ trace[i].tok.token_type = "Comment"
            /\ trace[i].tok.contents =
                  Slice(Rem(i), 0, RunUpTo(Rem(i), {"\n"}))
            /\ Eaten(i) = trace[i].tok.contents
            /\ trace[i].after < Len(orig) => orig[trace[i].after + 1] = "\n"
            /\ i < Len(trace) =>
                  /\ trace[i + 1].before = trace[i].after
                  /\ trace[i + 1].tok.contents # <<>>
                  /\ trace[i + 1].tok.contents[1] = "\n"

\* C20 - a Comment of two bytes or more, and after it a token that begins
\* with the line feed
CommentScanWitness ==
    \E i \in DOMAIN trace :
        /\ trace[i].tok.token_type = "Comment"
        /\ Len(trace[i].tok.contents) >= 2
        /\ i < Len(trace)
        /\ trace[i + 1].tok.contents[1] = "\n"

==========================================================================
